---- MODULE Spec2Model ----
(***************************************************************************)
(* Model of serenity.algo.engine: the layered Environment resolver and the *)
(* AlgoEngine start-up sequence (configuration, registries, strategy       *)
(* loading, asyncio launch).                                               *)
(***************************************************************************)
EXTENDS Integers, Sequences, FiniteSets, TLC

(***************************************************************************)
(* Python values.  Strings are TLA+ strings; None and "key not in the       *)
(* mapping" are two distinct markers outside the value universe.           *)
(***************************************************************************)
None == "<None>"
Missing == "<missing>"

\* The keys AlgoEngine.__init__ reads from the engine scope.
Keys == {"EXCHANGE_INSTANCE", "PHEMEX_API_KEY", "PHEMEX_API_SECRET"}
\* Keys the entry lists of directly built scopes and of strategies range over.
ScopeKeys == {"EXCHANGE_INSTANCE", "PHEMEX_API_KEY"}
\* Literal / environment-variable string values.
Values == {"a", "b"}
\* Default arguments tried at getenv.
Defaults == {None, "prod", "a"}

\* Longest environment entry list of a scope, and of the root scope that a
\* child scope is then built over.
MaxEntries == 2
MaxRootEntries == 1

(***************************************************************************)
(* One YAML environment entry: 'key' plus the optional fields 'value' and  *)
(* 'value-source' (Missing = the field is not in the mapping).             *)
(***************************************************************************)
EntryShapes ==
    {<<v, Missing>> : v \in Values} \cup
    {<<Missing, "SYSTEM_ENV">>, <<Missing, "FILE">>, <<Missing, Missing>>,
     <<"a", "SYSTEM_ENV">>}

EntriesOver(keys) ==
    {[key |-> k, value |-> s[1], value_source |-> s[2]] :
        k \in keys, s \in EntryShapes}

SeqsUpTo(S, n) == UNION {[1..m -> S] : m \in 0..n}

\* The process environment (os.environ): variable name -> value, None = unset.
OsEnvs(keys) ==
    {[k \in Keys |-> IF k \in keys THEN f[k] ELSE None] :
        f \in [keys -> Values \cup {None}]}

\* dict(): no key bound.
EmptyDict == [k \in Keys |-> Missing]

VARIABLES
    heap,          \* the dict objects allocated so far (index = reference)
    osenv,         \* os.environ
    \* -- Environment objects built directly (specification SpecEnv) --
    scopes,        \* sequence of Environment objects: [values |-> dict ref]
    config_yaml,   \* entry list passed to the latest Environment(...)
    parent,        \* parent argument of the latest Environment(...): index or 0
    parent_before, \* the parent's mapping as that call found it
    raised,        \* whether the latest Environment(...) raised ValueError
    \* -- main() / AlgoEngine (specification Spec) --
    pc,            \* position of main(): the statement executed next
    err,           \* message of the exception that ended main(), "" if none
    api_version,   \* local api_version (Missing before line 62)
    engine_env,    \* self.engine_env.values: dict reference, 0 before line 66
    instance_id,   \* local instance_id (Missing before line 67)
    fh_registry,   \* self.fh_registry: feed handlers in registration order
    op_service,    \* op_service: the keys order placers are registered under
    strategies,    \* self.strategies: sequence of (strategy, ctx) bindings
    fh_name,       \* loop local fh_name (Missing outside the loop)
    op_name,       \* loop local op_name (Missing outside the loop)
    strategy,      \* loop local strategy: how the declaration read resolves
    n_read,        \* entries of the current configuration list read so far
    tasks,         \* state of each feedhandler.start() task, by registry index
    timer,         \* the call_later handle: "none", "pending" or "fired"
    elapsed,       \* loop time elapsed since call_later
    ready_logged, \* number of '<READY FOR TRADING>' log records
    handler,       \* the loop's exception handler: "default" or "custom"
    calls          \* strategy methods invoked so far, in order

envvars == <<heap, osenv, scopes, config_yaml, parent, parent_before, raised>>
enginevars == <<pc, err, api_version, engine_env, instance_id, fh_registry,
                op_service, strategies, fh_name, op_name, strategy, n_read,
                tasks, timer, elapsed, ready_logged, handler, calls>>
vars == <<envvars, enginevars>>

\* Groups of engine variables, for the frame conditions.
builtvars == <<api_version, engine_env, instance_id, fh_registry, op_service,
               strategies>>
localvars == <<fh_name, op_name, strategy, n_read>>
loopvars == <<tasks, timer, elapsed, ready_logged, handler, calls>>

(***************************************************************************)
(* Environment.__init__, lines 26-38: the loop over the entries, writing   *)
(* into the mapping `values`.  The result carries the mapping as the loop  *)
(* left it and whether the loop raised (the writes made before a raise     *)
(* stay made).                                                             *)
(***************************************************************************)
os_getenv(env, key) == env[key]

entry_value(entry, env) ==
    IF entry.value # Missing THEN entry.value
    ELSE IF entry.value_source = "SYSTEM_ENV" THEN os_getenv(env, entry.key)
    ELSE None

entry_raises(entry) ==
    entry.value = Missing /\ entry.value_source = Missing

\* Variant: an entry binds its key only when the mapping does not hold the
\* key yet (dict.setdefault instead of assignment).
RECURSIVE apply_entries_setdefault(_, _, _)
apply_entries_setdefault(values, entries, env) ==
    IF entries = <<>> THEN [values |-> values, raised |-> FALSE]
    ELSE LET entry == Head(entries) IN
         IF entry_raises(entry) THEN [values |-> values, raised |-> TRUE]
         ELSE apply_entries_setdefault(
                 IF values[entry.key] # Missing THEN values
                 ELSE [values EXCEPT ![entry.key] = entry_value(entry, env)],
                 Tail(entries), env)

\* Variant: the loop walks the list from its last entry to its first.
RECURSIVE apply_entries_backwards(_, _, _)
apply_entries_backwards(values, entries, env) ==
    IF entries = <<>> THEN [values |-> values, raised |-> FALSE]
    ELSE LET entry == entries[Len(entries)] IN
         IF entry_raises(entry) THEN [values |-> values, raised |-> TRUE]
         ELSE apply_entries_backwards(
                 [values EXCEPT ![entry.key] = entry_value(entry, env)],
                 SubSeq(entries, 1, Len(entries) - 1), env)

RECURSIVE apply_entries(_, _, _)
apply_entries(values, entries, env) ==
    IF entries = <<>> THEN [values |-> values, raised |-> FALSE]
    ELSE LET entry == Head(entries) IN
         IF entry_raises(entry) THEN [values |-> values, raised |-> TRUE]
         ELSE apply_entries([values EXCEPT ![entry.key] = entry_value(entry, env)],
                            Tail(entries), env)

(***************************************************************************)
(* Environment.__init__, line 25: self.values = parent.values if parent is *)
(* not None else {}.  With a parent the new scope refers to the parent's   *)
(* own dict object; without one a fresh dict is allocated.                 *)
(***************************************************************************)
initial_values(h, parent_ref) ==
    IF parent_ref # 0
    THEN [heap |-> h, ref |-> parent_ref]
    ELSE [heap |-> Append(h, EmptyDict), ref |-> Len(h) + 1]

\* Environment(config_yaml, parent): the heap afterwards, the new scope's
\* dict reference, and whether the constructor raised.
Environment(h, entries, parent_ref, env) ==
    LET start == initial_values(h, parent_ref)
        done  == apply_entries(start.heap[start.ref], entries, env)
    IN [heap   |-> [start.heap EXCEPT ![start.ref] = done.values],
        ref    |-> start.ref,
        raised |-> done.raised]

\* Environment.getenv, lines 40-44.
getenv(values, key, default_val) ==
    IF values[key] # Missing THEN values[key] ELSE default_val

(***************************************************************************)
(* The state before main() runs / before any Environment is built.         *)
(***************************************************************************)
EnvInit ==
    /\ heap = <<>>
    /\ scopes = <<>>
    /\ config_yaml = <<>>
    /\ parent = 0
    /\ parent_before = EmptyDict
    /\ raised = FALSE

EngineInit ==
    /\ pc = "load_config"
    /\ err = ""
    /\ api_version = Missing
    /\ engine_env = 0
    /\ instance_id = Missing
    /\ fh_registry = <<>>
    /\ op_service = {}
    /\ strategies = <<>>
    /\ fh_name = Missing
    /\ op_name = Missing
    /\ strategy = Missing
    /\ n_read = 0
    /\ tasks = <<>>
    /\ timer = "none"
    /\ elapsed = 0
    /\ ready_logged = 0
    /\ handler = "default"
    /\ calls = <<>>

(***************************************************************************)
(* Specification SpecEnv: the Environment class on its own.  A root scope  *)
(* is built from an entry list, a child scope is built over it, and the    *)
(* process environment may change in between.                              *)
(***************************************************************************)
InitEnv ==
    /\ EnvInit
    /\ EngineInit
    /\ osenv \in OsEnvs(ScopeKeys)

\* scope = Environment(entries, parent): the object is bound only when the
\* constructor returns; an uncaught ValueError ends the run.
NewEnvironment(entries, p) ==
    /\ ~raised
    /\ LET r == Environment(heap, entries,
                             IF p = 0 THEN 0 ELSE scopes[p].values, osenv)
       IN /\ heap' = r.heap
          /\ raised' = r.raised
          /\ scopes' = IF r.raised THEN scopes
                       ELSE Append(scopes, [values |-> r.ref])
    /\ config_yaml' = entries
    /\ parent' = p
    /\ parent_before' = IF p = 0 THEN EmptyDict ELSE heap[scopes[p].values]
    /\ UNCHANGED <<osenv, enginevars>>

\* Environment(entries): the root scope.
NewRoot ==
    /\ scopes = <<>>
    /\ \E entries \in SeqsUpTo(EntriesOver(ScopeKeys), MaxRootEntries) :
          NewEnvironment(entries, 0)

\* Environment(entries, parent=root): a child scope of the root.
NewChild ==
    /\ Len(scopes) = 1
    /\ \E entries \in SeqsUpTo(EntriesOver(ScopeKeys), MaxEntries) :
          NewEnvironment(entries, 1)

\* Variant: scopes look SYSTEM_ENV keys up when asked, so a change of the
\* process environment shows through every mapping that holds the key.
Setenv_retroactive(k, v) ==
    /\ ~raised
    /\ osenv[k] # v
    /\ osenv' = [osenv EXCEPT ![k] = v]
    /\ heap' = [r \in DOMAIN heap |->
                  IF heap[r][k] # Missing THEN [heap[r] EXCEPT ![k] = v]
                                          ELSE heap[r]]
    /\ UNCHANGED <<scopes, config_yaml, parent, parent_before, raised,
                   enginevars>>

\* os.environ[k] = v, or del os.environ[k] (v = None).
Setenv(k, v) ==
    /\ ~raised
    /\ osenv[k] # v
    /\ osenv' = [osenv EXCEPT ![k] = v]
    /\ UNCHANGED <<heap, scopes, config_yaml, parent, parent_before, raised,
                   enginevars>>

NextEnv ==
    \/ NewRoot
    \/ NewChild
    \/ \E k \in ScopeKeys, v \in Values \cup {None} : Setenv(k, v)

SpecEnv == InitEnv /\ [][NextEnv]_vars

(***************************************************************************)
(* Specification Spec: main(config_path, strategy_dir).  The configuration *)
(* document is read as AlgoEngine.__init__ walks it: each step draws the    *)
(* section or list entry it reads.                                         *)
(***************************************************************************)
\* Longest feedhandlers / order_placers / strategies list of the document,
\* and longest environment entry list of one strategy.
MaxFeedhandlers == 2
MaxOrderPlacers == 2
MaxStrategies == 2
MaxStrategyEntries == 1

\* call_later(5, start_strategies), line 132.
STRATEGY_DELAY == 5

ApiVersions == {"v1Beta", "v2"}
\* Exchange identifiers a configuration entry may name.
ExchangeNames == {"Phemex", "Binance", "CoinbasePro", "Kraken"}

\* Strategy declarations: the environment entry list, and how the module and
\* strategy-class names resolve.
StrategyDecls ==
    [environment : SeqsUpTo(EntriesOver(ScopeKeys), MaxStrategyEntries),
     resolves : {"ok", "no module", "no class"}]

\* The process environment main() starts in: every variable unset, or every
\* variable set.
EngineOsEnvs == {[k \in Keys |-> None], [k \in Keys |-> "b"]}

\* Variant: only the empty string counts as a missing credential.
Falsy_empty_only(v) == v = ""

\* Python truthiness of a str-or-None (`not api_key`, lines 99 and 101).
Falsy(v) == v = None \/ v = ""

\* An exception propagates out of AlgoEngine.__init__ and main(): the
\* process exits, engine.start() is never called.
Raise(message) ==
    /\ pc' = "failed"
    /\ err' = message

(***************************************************************************)
(* FeedHandlerRegistry.register and                                        *)
(* OrderPlacerService.register_order_placer live in                        *)
(* serenity.marketdata.fh.feedhandler and serenity.trading: a registration *)
(* under a key already present is refused.                                 *)
(***************************************************************************)
FeedHandlerRegistry_register(registry, fh) ==
    IF \E i \in 1..Len(registry) : registry[i].exchange = fh.exchange
    THEN [raised |-> TRUE, registry |-> registry]
    ELSE [raised |-> FALSE, registry |-> Append(registry, fh)]

register_order_placer(service, key) ==
    IF key \in service
    THEN [raised |-> TRUE, service |-> service]
    ELSE [raised |-> FALSE, service |-> service \cup {key}]

\* serenity.utils.custom_asyncio_error_handler: log the fault and terminate
\* the process.
custom_asyncio_error_handler == "crashed"

\* loop.call_exception_handler(context) with the handler installed at the
\* time: asyncio's default handler only logs and the loop goes on.
call_exception_handler(h) ==
    IF h = "custom" THEN custom_asyncio_error_handler ELSE "running"

\* Variant: the api-version is read but not checked.
LoadConfig_unchecked ==
    /\ pc = "load_config"
    /\ \E version \in ApiVersions : api_version' = version
    /\ pc' = "engine_env"
    /\ UNCHANGED <<envvars, err, engine_env, instance_id, fh_registry,
                   op_service, strategies, localvars, loopvars>>

\* Lines 57-64: open and parse the document, check api-version.
LoadConfig ==
    /\ pc = "load_config"
    /\ \E version \in ApiVersions :
          /\ api_version' = version
          /\ IF version # "v1Beta"
             THEN Raise("Unsupported API version")
             ELSE pc' = "engine_env" /\ UNCHANGED err
    /\ UNCHANGED <<envvars, engine_env, instance_id, fh_registry, op_service,
                   strategies, localvars, loopvars>>

\* Lines 66-76: the engine scope, the instance id, the empty registry (and
\* the database connection, scheduler and instrument cache, which hold no
\* state of this model).
BuildEngineEnv ==
    /\ pc = "engine_env"
    /\ \E entries \in SeqsUpTo(EntriesOver(Keys), MaxEntries) :
       LET r == Environment(heap, entries, 0, osenv) IN
       /\ heap' = r.heap
       /\ IF r.raised
          THEN /\ Raise("Unsupported value type in Environment entry")
               /\ UNCHANGED <<engine_env, instance_id>>
          ELSE /\ engine_env' = r.ref
               /\ instance_id' = getenv(r.heap[r.ref], "EXCHANGE_INSTANCE", "prod")
               /\ pc' = "feedhandlers"
               /\ UNCHANGED err
    /\ fh_registry' = <<>>
    /\ UNCHANGED <<osenv, scopes, config_yaml, parent, parent_before, raised,
                   api_version, op_service, strategies, localvars, loopvars>>

\* Variant: an unsupported exchange matches no branch and is skipped, as in
\* the order-placer loop.
RegisterFeedhandler_skips ==
    /\ pc = "feedhandlers"
    /\ n_read < MaxFeedhandlers
    /\ n_read' = n_read + 1
    /\ \E name \in ExchangeNames :
          /\ fh_name' = name
          /\ IF name \in {"Phemex", "Binance", "CoinbasePro"}
             THEN LET fh == [exchange |-> name, instance_id |-> instance_id]
                      r  == FeedHandlerRegistry_register(fh_registry, fh)
                  IN /\ fh_registry' = r.registry
                     /\ IF r.raised
                        THEN Raise("Duplicate feedhandler key")
                        ELSE UNCHANGED <<pc, err>>
             ELSE UNCHANGED <<pc, err, fh_registry>>
    /\ UNCHANGED <<envvars, api_version, engine_env, instance_id, op_service,
                   strategies, op_name, strategy, loopvars>>

\* Variant: a feed handler's start is scheduled as soon as it is registered.
RegisterFeedhandler_launches ==
    /\ pc = "feedhandlers"
    /\ n_read < MaxFeedhandlers
    /\ n_read' = n_read + 1
    /\ \E name \in ExchangeNames :
          /\ fh_name' = name
          /\ IF name \in {"Phemex", "Binance", "CoinbasePro"}
             THEN LET fh == [exchange |-> name, instance_id |-> instance_id]
                      r  == FeedHandlerRegistry_register(fh_registry, fh)
                  IN /\ fh_registry' = r.registry
                     /\ IF r.raised
                        THEN Raise("Duplicate feedhandler key") /\ UNCHANGED tasks
                        ELSE /\ tasks' = Append(tasks, "scheduled")
                             /\ UNCHANGED <<pc, err>>
             ELSE /\ Raise("Unsupported feedhandler type")
                  /\ UNCHANGED <<fh_registry, tasks>>
    /\ UNCHANGED <<envvars, api_version, engine_env, instance_id, op_service,
                   strategies, op_name, strategy, timer, elapsed, ready_logged,
                   handler, calls>>

\* Lines 79-88: one iteration of the loop over config['feedhandlers'].
RegisterFeedhandler ==
    /\ pc = "feedhandlers"
    /\ n_read < MaxFeedhandlers
    /\ n_read' = n_read + 1
    /\ \E name \in ExchangeNames :
          /\ fh_name' = name
          /\ IF name \in {"Phemex", "Binance", "CoinbasePro"}
             THEN LET fh == [exchange |-> name, instance_id |-> instance_id]
                      r  == FeedHandlerRegistry_register(fh_registry, fh)
                  IN /\ fh_registry' = r.registry
                     /\ IF r.raised
                        THEN Raise("Duplicate feedhandler key")
                        ELSE UNCHANGED <<pc, err>>
             ELSE /\ Raise("Unsupported feedhandler type")
                  /\ UNCHANGED fh_registry
    /\ UNCHANGED <<envvars, api_version, engine_env, instance_id, op_service,
                   strategies, op_name, strategy, loopvars>>

\* Lines 77 and 90: no 'feedhandlers' section, or its list is exhausted (the
\* loop local is dead from here); op_service = OrderPlacerService().
EndFeedhandlers ==
    /\ pc = "feedhandlers"
    /\ pc' = "order_placers"
    /\ op_service' = {}
    /\ fh_name' = Missing
    /\ n_read' = 0
    /\ UNCHANGED <<envvars, err, api_version, engine_env, instance_id,
                   fh_registry, strategies, op_name, strategy, loopvars>>

\* Variant: the loop catches the refusal of a duplicate key and goes on.
RegisterOrderPlacer_ignores_duplicate ==
    /\ pc = "order_placers"
    /\ n_read < MaxOrderPlacers
    /\ n_read' = n_read + 1
    /\ \E name \in ExchangeNames :
          /\ op_name' = name
          /\ IF name = "Phemex"
             THEN LET api_key    == getenv(heap[engine_env], "PHEMEX_API_KEY", None)
                      api_secret == getenv(heap[engine_env], "PHEMEX_API_SECRET", None)
                      r == register_order_placer(op_service,
                              [exchange |-> "phemex", instance_id |-> instance_id])
                  IN IF Falsy(api_key)
                     THEN Raise("missing PHEMEX_API_KEY") /\ UNCHANGED op_service
                     ELSE IF Falsy(api_secret)
                     THEN Raise("missing PHEMEX_API_SECRET") /\ UNCHANGED op_service
                     ELSE /\ op_service' = r.service
                          /\ UNCHANGED <<pc, err>>
             ELSE UNCHANGED <<pc, err, op_service>>
    /\ UNCHANGED <<envvars, api_version, engine_env, instance_id, fh_registry,
                   strategies, fh_name, strategy, loopvars>>

\* Lines 94-106: one iteration of the loop over config['order_placers'].
\* An entry naming any exchange but 'Phemex' matches no branch.
RegisterOrderPlacer ==
    /\ pc = "order_placers"
    /\ n_read < MaxOrderPlacers
    /\ n_read' = n_read + 1
    /\ \E name \in ExchangeNames :
          /\ op_name' = name
          /\ IF name = "Phemex"
             THEN LET api_key    == getenv(heap[engine_env], "PHEMEX_API_KEY", None)
                      api_secret == getenv(heap[engine_env], "PHEMEX_API_SECRET", None)
                      r == register_order_placer(op_service,
                              [exchange |-> "phemex", instance_id |-> instance_id])
                  IN IF Falsy(api_key)
                     THEN Raise("missing PHEMEX_API_KEY") /\ UNCHANGED op_service
                     ELSE IF Falsy(api_secret)
                     THEN Raise("missing PHEMEX_API_SECRET") /\ UNCHANGED op_service
                     ELSE /\ op_service' = r.service
                          /\ IF r.raised
                             THEN Raise("Duplicate order placer key")
                             ELSE UNCHANGED <<pc, err>>
             ELSE UNCHANGED <<pc, err, op_service>>
    /\ UNCHANGED <<envvars, api_version, engine_env, instance_id, fh_registry,
                   strategies, fh_name, strategy, loopvars>>

\* Lines 92 and 108: no 'order_placers' section, or its list is exhausted
\* (the loop local is dead from here); self.strategies = [].
EndOrderPlacers ==
    /\ pc = "order_placers"
    /\ pc' = "strategies"
    /\ strategies' = <<>>
    /\ op_name' = Missing
    /\ n_read' = 0
    /\ UNCHANGED <<envvars, err, api_version, engine_env, instance_id,
                   fh_registry, op_service, fh_name, strategy, loopvars>>

\* Variant: a declaration whose module or class does not resolve is skipped
\* and loading goes on with the next one.
LoadStrategy_skips ==
    /\ pc = "strategies"
    /\ n_read < MaxStrategies
    /\ n_read' = n_read + 1
    /\ \E decl \in StrategyDecls :
       LET env == Environment(heap, decl.environment, engine_env, osenv) IN
       /\ strategy' = decl.resolves
       /\ heap' = env.heap
       /\ IF env.raised
          THEN Raise("Unsupported value type in Environment entry")
               /\ UNCHANGED strategies
          ELSE IF decl.resolves # "ok"
          THEN UNCHANGED <<pc, err, strategies>>
          ELSE /\ strategies' = Append(strategies,
                     [values |-> env.ref, instance_id |-> instance_id])
               /\ UNCHANGED <<pc, err>>
    /\ UNCHANGED <<osenv, scopes, config_yaml, parent, parent_before, raised,
                   api_version, engine_env, instance_id, fh_registry,
                   op_service, fh_name, op_name, loopvars>>

\* Lines 109-121: one iteration of the loop over config['strategies']: the
\* strategy's scope (child of the engine scope), import_module, getattr,
\* klass(), the market-data facade and the context over env.values.
LoadStrategy ==
    /\ pc = "strategies"
    /\ n_read < MaxStrategies
    /\ n_read' = n_read + 1
    /\ \E decl \in StrategyDecls :
       LET env == Environment(heap, decl.environment, engine_env, osenv) IN
       /\ strategy' = decl.resolves
       /\ heap' = env.heap
       /\ IF env.raised
          THEN Raise("Unsupported value type in Environment entry")
               /\ UNCHANGED strategies
          ELSE IF decl.resolves = "no module"
          THEN Raise("ModuleNotFoundError") /\ UNCHANGED strategies
          ELSE IF decl.resolves = "no class"
          THEN Raise("AttributeError") /\ UNCHANGED strategies
          ELSE /\ strategies' = Append(strategies,
                     [values |-> env.ref, instance_id |-> instance_id])
               /\ UNCHANGED <<pc, err>>
    /\ UNCHANGED <<osenv, scopes, config_yaml, parent, parent_before, raised,
                   api_version, engine_env, instance_id, fh_registry,
                   op_service, fh_name, op_name, loopvars>>

\* The list config['strategies'] is exhausted: __init__ returns and main()
\* calls engine.start(), line 145.
EndStrategies ==
    /\ pc = "strategies"
    /\ pc' = "start"
    /\ strategy' = Missing
    /\ n_read' = 0
    /\ UNCHANGED <<envvars, err, builtvars, fh_name, op_name, loopvars>>

\* Lines 124-125: asyncio.ensure_future(feedhandler.start()) for the next
\* feed handler of the registry.
ScheduleFeedhandler ==
    /\ pc = "start"
    /\ Len(tasks) < Len(fh_registry)
    /\ tasks' = Append(tasks, "scheduled")
    /\ UNCHANGED <<envvars, pc, err, builtvars, localvars, timer, elapsed,
                   ready_logged, handler, calls>>

\* Line 132: call_later(5, start_strategies).
CallLater ==
    /\ pc = "start"
    /\ Len(tasks) = Len(fh_registry)
    /\ timer' = "pending"
    /\ elapsed' = 0
    /\ pc' = "log_ready"
    /\ UNCHANGED <<envvars, err, builtvars, localvars, tasks, ready_logged,
                   handler, calls>>

\* Line 133: self.logger.info('<READY FOR TRADING>').
LogReady ==
    /\ pc = "log_ready"
    /\ ready_logged' = ready_logged + 1
    /\ pc' = "set_exception_handler"
    /\ UNCHANGED <<envvars, err, builtvars, localvars, tasks, timer, elapsed,
                   handler, calls>>

\* Variant: start() goes on to run_forever() without installing the handler.
SetExceptionHandler_skipped ==
    /\ pc = "set_exception_handler"
    /\ pc' = "run_forever"
    /\ UNCHANGED <<envvars, err, builtvars, localvars, loopvars>>

\* Line 136: set_exception_handler(custom_asyncio_error_handler).
SetExceptionHandler ==
    /\ pc = "set_exception_handler"
    /\ handler' = "custom"
    /\ pc' = "run_forever"
    /\ UNCHANGED <<envvars, err, builtvars, localvars, tasks, timer, elapsed,
                   ready_logged, calls>>

\* Line 139: run_forever(); from here the event loop runs what was scheduled.
RunForever ==
    /\ pc = "run_forever"
    /\ pc' = "running"
    /\ UNCHANGED <<envvars, err, builtvars, localvars, loopvars>>

\* The loop runs the task of feedhandler.start(): the coroutine either gets
\* its connection up or raises; a raised exception is stored in the task.
FeedhandlerStart ==
    /\ pc = "running"
    /\ \E i \in 1..Len(tasks), outcome \in {"connected", "raised"} :
          /\ tasks[i] = "scheduled"
          /\ tasks' = [tasks EXCEPT ![i] = outcome]
    /\ UNCHANGED <<envvars, pc, err, builtvars, localvars, timer, elapsed,
                   ready_logged, handler, calls>>

\* Line 125 drops the task ensure_future returns, so nobody retrieves the
\* stored exception: the interpreter reports it to the loop's exception
\* handler when it releases the finished task, which is at once under
\* reference counting and at some later collection otherwise.
TaskException ==
    /\ pc = "running"
    /\ \E i \in 1..Len(tasks) :
          /\ tasks[i] = "raised"
          /\ tasks' = [tasks EXCEPT ![i] = "reported"]
    /\ pc' = call_exception_handler(handler)
    /\ UNCHANGED <<envvars, err, builtvars, localvars, timer, elapsed,
                   ready_logged, handler, calls>>

\* The loop sleeps until the call_later handle is due.
AdvanceTime ==
    /\ pc = "running"
    /\ timer = "pending"
    /\ elapsed < STRATEGY_DELAY
    /\ elapsed' = STRATEGY_DELAY
    /\ UNCHANGED <<envvars, pc, err, builtvars, localvars, tasks, timer,
                   ready_logged, handler, calls>>

\* The calls start_strategies makes when nothing raises (lines 128-130).
strategy_calls(bindings) ==
    [j \in 1..(2 * Len(bindings)) |->
        [method |-> IF j % 2 = 1 THEN "init" ELSE "start",
         strategy |-> (j + 1) \div 2]]

\* Variant: the callback is handed to the loop with no delay (call_soon).
start_strategies_undelayed ==
    /\ pc = "running"
    /\ timer = "pending"
    /\ timer' = "fired"
    /\ \E fault \in 0..(2 * Len(strategies)) :
       LET all == strategy_calls(strategies) IN
       IF fault = 0
       THEN calls' = all /\ UNCHANGED pc
       ELSE /\ calls' = SubSeq(all, 1, fault)
            /\ pc' = call_exception_handler(handler)
    /\ UNCHANGED <<envvars, err, builtvars, localvars, tasks, elapsed,
                   ready_logged, handler>>

\* Variant: the callback runs only once every feed handler has connected.
start_strategies_when_connected ==
    /\ pc = "running"
    /\ timer = "pending"
    /\ elapsed >= STRATEGY_DELAY
    /\ \A i \in DOMAIN tasks : tasks[i] = "connected"
    /\ timer' = "fired"
    /\ \E fault \in 0..(2 * Len(strategies)) :
       LET all == strategy_calls(strategies) IN
       IF fault = 0
       THEN calls' = all /\ UNCHANGED pc
       ELSE /\ calls' = SubSeq(all, 1, fault)
            /\ pc' = call_exception_handler(handler)
    /\ UNCHANGED <<envvars, err, builtvars, localvars, tasks, elapsed,
                   ready_logged, handler>>

\* Variant: a strategy whose init or start raises is left out and the
\* callback goes on with the next strategy; nothing reaches the handler.
start_strategies_isolated ==
    /\ pc = "running"
    /\ timer = "pending"
    /\ elapsed >= STRATEGY_DELAY
    /\ timer' = "fired"
    /\ \E fault \in 0..(2 * Len(strategies)) :
       LET all == strategy_calls(strategies) IN
       IF fault = 0
       THEN calls' = all
       ELSE calls' = SubSeq(all, 1, fault)
                     \o SubSeq(all, 2 * ((fault + 1) \div 2) + 1, Len(all))
    /\ UNCHANGED <<envvars, pc, err, builtvars, localvars, tasks, elapsed,
                   ready_logged, handler>>

\* Lines 127-130, run by the loop once the delay has elapsed.  fault = 0:
\* every call returns; fault = j: the j-th call raises, the callback ends
\* there and the loop hands the exception to its exception handler.
start_strategies ==
    /\ pc = "running"
    /\ timer = "pending"
    /\ elapsed >= STRATEGY_DELAY
    /\ timer' = "fired"
    /\ \E fault \in 0..(2 * Len(strategies)) :
       LET all == strategy_calls(strategies) IN
       IF fault = 0
       THEN calls' = all /\ UNCHANGED pc
       ELSE /\ calls' = SubSeq(all, 1, fault)
            /\ pc' = call_exception_handler(handler)
    /\ UNCHANGED <<envvars, err, builtvars, localvars, tasks, elapsed,
                   ready_logged, handler>>

Init ==
    /\ EnvInit
    /\ EngineInit
    /\ osenv \in EngineOsEnvs

Next ==
    \/ LoadConfig
    \/ BuildEngineEnv
    \/ RegisterFeedhandler
    \/ EndFeedhandlers
    \/ RegisterOrderPlacer
    \/ EndOrderPlacers
    \/ LoadStrategy
    \/ EndStrategies
    \/ ScheduleFeedhandler
    \/ CallLater
    \/ LogReady
    \/ SetExceptionHandler
    \/ RunForever
    \/ FeedhandlerStart
    \/ TaskException
    \/ AdvanceTime
    \/ start_strategies

Spec == Init /\ [][Next]_vars

\* main() keeps executing the statements of start(), loop time passes, and
\* the running loop calls a due call_later handle.  Nothing is assumed of the
\* feed handler coroutines: a connection attempt may hang for ever.
SpecLive ==
    /\ Spec
    /\ WF_vars(ScheduleFeedhandler)
    /\ WF_vars(CallLater)
    /\ WF_vars(LogReady)
    /\ WF_vars(SetExceptionHandler)
    /\ WF_vars(RunForever)
    /\ WF_vars(AdvanceTime)
    /\ WF_vars(start_strategies)

(***************************************************************************)
(* Properties.                                                             *)
(***************************************************************************)
\* The scope built by the latest successful Environment(...) of SpecEnv.
LatestValues == heap[scopes[Len(scopes)].values]
DeclaredKeys(entries) == {entries[i].key : i \in DOMAIN entries}
\* The last entry of the list that declares key k.
LastEntry(entries, k) ==
    entries[CHOOSE i \in DOMAIN entries :
               /\ entries[i].key = k
               /\ \A j \in DOMAIN entries : j > i => entries[j].key # k]

\* C1 (SpecEnv): once a child scope has been built over a parent, the parent
\* answers getenv(k, d), for every key and default, as it did before the child
\* was built.
C1_ChildLeavesParent ==
    (Len(scopes) = 2 /\ parent = 1) =>
        \A k \in Keys, d \in Defaults :
            getenv(heap[scopes[1].values], k, d) = getenv(parent_before, k, d)

\* C2 (SpecEnv): when a scope is built, every key whose deciding entry names
\* value-source SYSTEM_ENV while the process variable is unset answers
\* getenv(key, d) with d, for every default d.
C2_UnsetSystemEnvYieldsDefault ==
    [][Len(scopes') = Len(scopes) + 1 =>
        \A i \in DOMAIN config_yaml' :
            LET entry == config_yaml'[i] IN
            ( /\ entry.value = Missing
              /\ entry.value_source = "SYSTEM_ENV"
              /\ os_getenv(osenv, entry.key) = None
              /\ \A j \in DOMAIN config_yaml' : j > i => config_yaml'[j].key # entry.key )
            => \A d \in Defaults :
                  getenv(heap'[scopes'[Len(scopes')].values], entry.key, d) = d
      ]_vars

\* C3 (Spec): an order_placers entry naming an exchange outside the supported
\* set makes start-up fail; it is never skipped with start-up going on.
C3_UnsupportedOrderPlacerAborts ==
    op_name \notin {Missing, "Phemex"} => pc = "failed"

\* C4 (Spec): a feedhandlers entry naming an exchange outside {Phemex,
\* Binance, CoinbasePro} ends start-up with the unsupported-feedhandler error,
\* and after that error nothing is ever launched: no feed handler start is
\* scheduled, no strategy is loaded, no timer is set.
C4_UnsupportedFeedhandlerAborts ==
    /\ fh_name \notin {Missing, "Phemex", "Binance", "CoinbasePro"} =>
          err = "Unsupported feedhandler type"
    /\ err = "Unsupported feedhandler type" =>
          /\ pc = "failed"
          /\ tasks = <<>>
          /\ strategies = <<>>
          /\ timer = "none"
          /\ calls = <<>>

\* Start-up was aborted by an unsupported feed handler after another feed
\* handler of the same list had been registered.
C4_Witness ==
    /\ err = "Unsupported feedhandler type"
    /\ fh_name = "Kraken"
    /\ Len(fh_registry) >= 1

\* C5 (Spec): strategy methods are invoked at most once each, init before
\* start of the same strategy, strategies in registration order, only after
\* the delay has elapsed and every registered feed handler's start has been
\* scheduled; and when the activation callback has returned, init and start
\* of every binding have been invoked.
C5_StrategyActivation ==
    /\ \A j \in DOMAIN calls : calls[j].strategy \in 1..Len(strategies)
    /\ \A j1, j2 \in DOMAIN calls : j1 # j2 => calls[j1] # calls[j2]
    /\ \A j \in DOMAIN calls :
          calls[j].method = "start" =>
             \E j0 \in 1..(j - 1) :
                calls[j0] = [method |-> "init", strategy |-> calls[j].strategy]
    /\ \A j1, j2 \in DOMAIN calls :
          j1 < j2 => calls[j1].strategy <= calls[j2].strategy
    /\ calls # <<>> =>
          /\ elapsed >= STRATEGY_DELAY
          /\ Len(tasks) = Len(fh_registry)
    /\ (pc = "running" /\ timer = "fired") =>
          \A i \in 1..Len(strategies), m \in {"init", "start"} :
             \E j \in DOMAIN calls : calls[j] = [method |-> m, strategy |-> i]

\* Two strategies have been activated, with feed handlers registered.
C5_Witness ==
    /\ pc = "running"
    /\ timer = "fired"
    /\ Len(strategies) = 2
    /\ Len(calls) = 4
    /\ Len(fh_registry) = 2

\* C6 (Spec): the readiness marker is logged at most once, and when it has
\* been logged start() has been invoked on every strategy binding.
C6_ReadyAfterStrategies ==
    /\ ready_logged <= 1
    /\ ready_logged >= 1 =>
          \A i \in 1..Len(strategies) :
             \E j \in DOMAIN calls : calls[j] = [method |-> "start", strategy |-> i]

\* C7 (Spec): a Phemex order placer read while PHEMEX_API_KEY or
\* PHEMEX_API_SECRET resolves to absent in the engine scope ends start-up with
\* a missing-credential error; after that error no order placer is
\* registered and no feed handler start is ever scheduled.
MissingCredentialErrors == {"missing PHEMEX_API_KEY", "missing PHEMEX_API_SECRET"}

CredentialAbsent ==
    /\ engine_env # 0
    /\ \/ getenv(heap[engine_env], "PHEMEX_API_KEY", None) = None
       \/ getenv(heap[engine_env], "PHEMEX_API_SECRET", None) = None

C7_MissingCredentialAborts ==
    /\ (op_name = "Phemex" /\ CredentialAbsent) => err \in MissingCredentialErrors
    /\ err \in MissingCredentialErrors =>
          /\ pc = "failed"
          /\ op_service = {}
          /\ tasks = <<>>
          /\ timer = "none"

\* Start-up was aborted for the secret alone, with feed handlers registered.
C7_Witness ==
    /\ err = "missing PHEMEX_API_SECRET"
    /\ getenv(heap[engine_env], "PHEMEX_API_KEY", None) \in Values
    /\ Len(fh_registry) = 2

\* C8 (Spec): a strategy declaration whose module does not import or whose
\* class is not in the module ends start-up (with the load error, unless the
\* declaration's own environment list was refused first); after a load error
\* no strategy method is ever invoked and nothing is launched.
StrategyLoadErrors == {"ModuleNotFoundError", "AttributeError"}

C8_StrategyLoadFailureAborts ==
    /\ strategy \in {"no module", "no class"} =>
          /\ pc = "failed"
          /\ err \in StrategyLoadErrors
                \cup {"Unsupported value type in Environment entry"}
    /\ err \in StrategyLoadErrors =>
          /\ pc = "failed"
          /\ strategy \in {"no module", "no class"}
          /\ calls = <<>>
          /\ tasks = <<>>
          /\ timer = "none"

\* A strategy failed to load after an earlier one had been loaded.
C8_Witness ==
    /\ err \in StrategyLoadErrors
    /\ Len(strategies) = 1

\* C9 (Spec): with an api-version other than 'v1Beta' start-up ends at once
\* with the version error: no Environment has been built, nothing has been
\* registered and no strategy has been read.
C9_BadVersionFailsFirst ==
    api_version \notin {Missing, "v1Beta"} =>
        /\ pc = "failed"
        /\ err = "Unsupported API version"
        /\ heap = <<>>
        /\ engine_env = 0
        /\ instance_id = Missing
        /\ fh_registry = <<>>
        /\ op_service = {}
        /\ strategies = <<>>
        /\ strategy = Missing
        /\ tasks = <<>>

C9_Witness == api_version = "v2" /\ pc = "failed"

\* C10 (SpecEnv): when a child scope is built over a parent, then for every
\* key the parent held, the child's getenv(key) is the value of the child's
\* own (last) entry for the key if it declares one, and the parent's value
\* otherwise.
C10_OverrideSemantics ==
    [][(Len(scopes') = Len(scopes) + 1 /\ parent' # 0) =>
        LET child  == heap'[scopes'[Len(scopes')].values]
            before == heap[scopes[parent'].values]
        IN \A k \in Keys :
              before[k] # Missing =>
                 getenv(child, k, None) =
                    IF k \in DeclaredKeys(config_yaml')
                    THEN entry_value(LastEntry(config_yaml', k), osenv)
                    ELSE before[k]
      ]_vars

\* A child was built whose entry for a key of the parent gives another value.
C10_Witness ==
    /\ Len(scopes) = 2
    /\ parent = 1
    /\ \E k \in DeclaredKeys(config_yaml) :
          /\ parent_before[k] \in Values
          /\ LatestValues[k] \in Values
          /\ LatestValues[k] # parent_before[k]

\* Some scheduled unit of work has executed: a feed handler's start
\* coroutine, or the activation callback with its strategy methods.
WorkExecuted ==
    \/ \E i \in DOMAIN tasks : tasks[i] # "scheduled"
    \/ timer = "fired"
    \/ calls # <<>>

\* C11 (Spec): whenever a feed handler's start coroutine or a strategy's
\* init/start has executed, or the loop is running, the process-wide handler
\* is installed; a fault handed to the loop's exception handler (a reported
\* task exception, an activation callback cut short) leaves the process
\* crashed; and the crashed state is terminal: no step is taken from it.
C11_FaultHandlerInstalled ==
    /\ [](/\ (WorkExecuted \/ pc \in {"running", "crashed"}) => handler = "custom"
          /\ (\E i \in DOMAIN tasks : tasks[i] = "reported") => pc = "crashed"
          /\ (timer = "fired" /\ Len(calls) < 2 * Len(strategies)) => pc = "crashed")
    /\ [][pc = "crashed" => UNCHANGED vars]_vars

\* A feed handler's fault crashed the process while another feed handler's
\* start and the strategy activation were still waiting to run.
C11_Witness ==
    /\ pc = "crashed"
    /\ \E i, j \in DOMAIN tasks : tasks[i] = "reported" /\ tasks[j] = "scheduled"
    /\ timer = "pending"
    /\ strategies # <<>>

\* Something has been handed to the event loop: a feed handler start or the
\* activation callback.
WorkScheduled == tasks # <<>> \/ timer # "none"

\* C12 (Spec): when a feed handler start or the activation callback has been
\* scheduled, the loops of __init__ over feedhandlers, order_placers and
\* strategies have all run to their end, and no step that schedules work or
\* follows such a step changes the feed handler registry, the order placer
\* service or the list of strategy bindings.
C12_RegistriesFinalBeforeWork ==
    /\ [](WorkScheduled =>
            /\ pc \in {"start", "log_ready", "set_exception_handler",
                       "run_forever", "running", "crashed"}
            /\ n_read = 0)
    /\ [][(tasks' # <<>> \/ timer' # "none") =>
            UNCHANGED <<fh_registry, op_service, strategies>>]_vars

\* Work is running over two feed handlers, an order placer and two strategies.
C12_Witness ==
    /\ pc = "running"
    /\ \E i \in DOMAIN tasks : tasks[i] = "connected"
    /\ Len(fh_registry) = 2
    /\ op_service # {}
    /\ Len(strategies) = 2

\* An entry the configuration format does not allow: no literal value and
\* no value-source, or a value-source that is not SYSTEM_ENV.
Malformed(entry) ==
    entry.value = Missing /\ entry.value_source # "SYSTEM_ENV"

\* C13 (SpecEnv): a constructor call whose entry list holds an entry with
\* neither value nor value-source, or with a value-source other than
\* SYSTEM_ENV, raises; it never returns a scope.
C13_MalformedEntryRaises ==
    (\E i \in DOMAIN config_yaml : Malformed(config_yaml[i])) => raised

\* C14 (SpecEnv): a step that changes the process environment changes no
\* scope's mapping: every scope answers getenv(k, d), for every key and
\* default, as before the change.  (getenv, lines 40-44, only reads.)
C14_ResolvedOnceAtConstruction ==
    [][osenv' # osenv =>
         /\ scopes' = scopes
         /\ \A i \in DOMAIN scopes : \A k \in Keys, d \in Defaults :
               getenv(heap'[scopes[i].values], k, d) =
               getenv(heap[scopes[i].values], k, d)
      ]_vars

\* A scope holds a value resolved from the process environment that the
\* environment no longer has.
C14_Witness ==
    /\ scopes # <<>>
    /\ ~raised
    /\ \E k \in DeclaredKeys(config_yaml) :
          /\ LastEntry(config_yaml, k).value = Missing
          /\ LastEntry(config_yaml, k).value_source = "SYSTEM_ENV"
          /\ LatestValues[k] \in Values
          /\ os_getenv(osenv, k) # LatestValues[k]

\* C16 (SpecEnv): when a scope is built, getenv(key) on it returns, for
\* every key its entry list declares, the value resolved for the last entry
\* of the list with that key, also when that value is absent (None).
C16_LaterEntriesWin ==
    [][Len(scopes') = Len(scopes) + 1 =>
         \A k \in DeclaredKeys(config_yaml') :
            getenv(heap'[scopes'[Len(scopes')].values], k, None) =
               entry_value(LastEntry(config_yaml', k), osenv)
      ]_vars

\* A list declared the same key twice, first with a literal value and last
\* with an entry that resolves to absent, and the scope holds absent.
C16_Witness ==
    /\ scopes # <<>>
    /\ ~raised
    /\ Len(config_yaml) = 2
    /\ config_yaml[1].key = config_yaml[2].key
    /\ config_yaml[1].value \in Values
    /\ config_yaml[2].value = Missing
    /\ LatestValues[config_yaml[2].key] = None

DuplicateKeyErrors == {"Duplicate feedhandler key", "Duplicate order placer key"}

\* C15 (Spec): the feed handler registry never holds two feed handlers of
\* one exchange and the order placer service never holds more than the one
\* 'phemex:<instance id>' key; reading a feedhandlers entry whose exchange
\* is registered already, or a second Phemex order placer, ends start-up with
\* the duplicate-key error and leaves the registry as it was; after that
\* error no feed handler start is scheduled and no timer is set.
C15_RegistryKeysUnique ==
    /\ [](/\ \A i, j \in DOMAIN fh_registry :
                i # j => fh_registry[i].exchange # fh_registry[j].exchange
          /\ Cardinality(op_service) <= 1
          /\ err \in DuplicateKeyErrors =>
                pc = "failed" /\ tasks = <<>> /\ timer = "none" /\ calls = <<>>)
    /\ [][/\ (/\ pc = "feedhandlers"
              /\ \E i \in DOMAIN fh_registry : fh_registry[i].exchange = fh_name')
             => /\ pc' = "failed"
                /\ err' = "Duplicate feedhandler key"
                /\ fh_registry' = fh_registry
          /\ (pc = "order_placers" /\ op_name' = "Phemex" /\ op_service # {})
             => /\ pc' = "failed"
                /\ err' = "Duplicate order placer key"
                /\ op_service' = op_service
         ]_vars

\* A second Phemex order placer was refused, with feed handlers registered.
C15_Witness ==
    /\ err = "Duplicate order placer key"
    /\ Cardinality(op_service) = 1
    /\ Len(fh_registry) = 2

\* C17 (Spec): loading a strategy changes neither the values in the context
\* of a strategy loaded before it nor what the engine scope resolves.
C17_OwnScopePerStrategy ==
    [][pc = "strategies" =>
         /\ heap'[engine_env] = heap[engine_env]
         /\ \A i \in DOMAIN strategies :
               heap'[strategies[i].values] = heap[strategies[i].values]
      ]_vars

\* C18 (Spec): the instance id is never an absent value: not the local of
\* __init__, not the one a feed handler, an order placer key or a strategy's
\* market-data facade was given; and all of them are the same.
C18_InstanceIdNeverAbsent ==
    /\ instance_id # None
    /\ \A i \in DOMAIN fh_registry : fh_registry[i].instance_id \notin {None, Missing}
    /\ \A key \in op_service : key.instance_id \notin {None, Missing}
    /\ \A i \in DOMAIN strategies : strategies[i].instance_id \notin {None, Missing}

\* C19 (SpecLive): once start() is entered, the activation callback
\* eventually runs unless a fault crashes the process first, although no
\* feed handler coroutine is assumed ever to make a step.
C19_ActivationUnconditional ==
    (pc = "start") ~> (timer = "fired" \/ pc = "crashed")

\* Both strategies were started while no feed handler's start had completed.
C19_Witness ==
    /\ pc = "running"
    /\ timer = "fired"
    /\ Len(calls) = 4
    /\ Len(tasks) = 2
    /\ \A i \in DOMAIN tasks : tasks[i] = "scheduled"

\* C20 (Spec): the strategy methods invoked by the activation callback are
\* always a leading part of init 1, start 1, init 2, start 2, ...; when the
\* callback has stopped short of the full list the process has crashed; and
\* once the callback has run no strategy method is invoked or undone.
C20_NoIsolationBetweenStrategies ==
    /\ [](/\ timer = "fired" =>
                calls = SubSeq(strategy_calls(strategies), 1, Len(calls))
          /\ (timer = "fired" /\ Len(calls) < 2 * Len(strategies)) =>
                pc = "crashed")
    /\ [][timer = "fired" => calls' = calls]_vars

\* The second strategy's init raised: the first strategy is started, the
\* second never is, and the process has crashed.
C20_Witness ==
    /\ pc = "crashed"
    /\ timer = "fired"
    /\ Len(strategies) = 2
    /\ Len(calls) = 3

====
